---- MODULE Spec2Model ----
(***************************************************************************)
(* Model of the anomaly detector of backend/app/alerts.py: the scorer     *)
(* compute_zscore, the handlers run_check and notify_alert over the       *)
(* measurement and alert tables, and send_notifications of                *)
(* backend/app/notifications.py.                                          *)
(*                                                                         *)
(* Numbers.  The code computes with Python floats (IEEE binary64, round   *)
(* to nearest, ties to even).  TLC's integers are 32 bits wide, so the    *)
(* model keeps the format and the rounding rule and scales the            *)
(* significand from 53 bits to Prec bits; the exponent range is not       *)
(* bounded (no value of the model comes near overflow or underflow).      *)
(* 13 is congruent to 53 modulo 4, the period of the binary expansion of  *)
(* 1/10, so the decimal fractions the model uses (0.1, 27.1) round in the *)
(* same direction in both formats.  sum() adds from the left, one         *)
(* rounding per addition.                                                 *)
(* A float is [m, e] with value m * 2^e, m = 0 /\ e = 0 or                *)
(* 2^(Prec-1) <= |m| < 2^Prec.                                             *)
(***************************************************************************)
EXTENDS Integers, Sequences, FiniteSets, TLC

Prec == 13

None == [none |-> TRUE]

Abs(n) == IF n < 0 THEN -n ELSE n

Sgn(n) == IF n < 0 THEN -1 ELSE IF n > 0 THEN 1 ELSE 0

Pow2(k) == 2 ^ k

Pow10(k) == 10 ^ k

(* the number of bits of n, 0 <= n < 2^31 *)
RECURSIVE BitLenIn(_, _, _)
BitLenIn(n, lo, hi) ==
    IF hi - lo <= 1 THEN hi
    ELSE LET mid == (lo + hi) \div 2
         IN  IF n < Pow2(mid) THEN BitLenIn(n, lo, mid) ELSE BitLenIn(n, mid, hi)

BitLen(n) == IF n = 0 THEN 0 ELSE BitLenIn(n, 0, 31)

Zero == [m |-> 0, e |-> 0]

(* The float nearest to s * (n + t) * 2^e, where n >= 0 is an integer,    *)
(* s its sign and 0 < t < 1 when sticky (t = 0 otherwise); ties to even.  *)
Round(s, n, e, sticky) ==
    IF n = 0 THEN Zero
    ELSE LET k == BitLen(n) - Prec
         IN  IF k <= 0
             THEN [m |-> s * n * Pow2(-k), e |-> e + k]
             ELSE LET q    == n \div Pow2(k)
                      r    == n % Pow2(k)
                      half == Pow2(k - 1)
                      up   == \/ r > half
                              \/ r = half /\ sticky
                              \/ r = half /\ ~sticky /\ q % 2 = 1
                      q2   == IF up THEN q + 1 ELSE q
                  IN  IF q2 = Pow2(Prec)
                      THEN [m |-> s * Pow2(Prec - 1), e |-> e + k + 1]
                      ELSE [m |-> s * q2, e |-> e + k]

FromInt(n) == Round(Sgn(n), Abs(n), 0, FALSE)

FNeg(a) == [m |-> -a.m, e |-> a.e]

FAbs(a) == [m |-> Abs(a.m), e |-> a.e]

(* a + b, correctly rounded.  When the exponents are more than Prec + 1   *)
(* apart the smaller operand is below a quarter of the larger one's last  *)
(* place and only decides the direction of rounding.                      *)
FAdd(a, b) ==
    IF a.m = 0 THEN b
    ELSE IF b.m = 0 THEN a
    ELSE LET hi == IF a.e >= b.e THEN a ELSE b
             lo == IF a.e >= b.e THEN b ELSE a
             d  == hi.e - lo.e
         IN  IF d <= Prec + 1
             THEN LET n == hi.m * Pow2(d) + lo.m
                  IN  Round(Sgn(n), Abs(n), lo.e, FALSE)
             ELSE IF Sgn(hi.m) = Sgn(lo.m)
                  THEN Round(Sgn(hi.m), Abs(hi.m) * 4, hi.e - 2, TRUE)
                  ELSE Round(Sgn(hi.m), Abs(hi.m) * 4 - 1, hi.e - 2, TRUE)

FSub(a, b) == FAdd(a, FNeg(b))

FMul(a, b) ==
    Round(Sgn(a.m) * Sgn(b.m), Abs(a.m) * Abs(b.m), a.e + b.e, FALSE)

(* a / b for b # 0, correctly rounded: a quotient of at least Prec + 1    *)
(* bits and the remainder as the sticky bit.                              *)
FDiv(a, b) ==
    IF a.m = 0 THEN Zero
    ELSE LET n == Abs(a.m) * Pow2(Prec + 1)
             d == Abs(b.m)
         IN  Round(Sgn(a.m) * Sgn(b.m), n \div d, a.e - b.e - (Prec + 1),
                   n % d # 0)

RECURSIVE ISqrtIn(_, _, _)
ISqrtIn(n, lo, hi) ==
    IF hi - lo <= 1 THEN lo
    ELSE LET mid == (lo + hi) \div 2
         IN  IF mid * mid <= n THEN ISqrtIn(n, mid, hi) ELSE ISqrtIn(n, lo, mid)

(* floor(sqrt(n)) for 0 <= n < 2^30 *)
ISqrt(n) == ISqrtIn(n, 0, Pow2(15))

(* math.sqrt(a) for a >= 0, correctly rounded: the significand is scaled  *)
(* to an even exponent and to [2^(2 Prec), 2^(2 Prec + 2)), so its        *)
(* integer root has Prec + 1 bits.                                        *)
FSqrt(a) ==
    IF a.m = 0 THEN Zero
    ELSE LET odd == a.e % 2 = 1
             m1  == IF odd THEN a.m * 2 ELSE a.m
             e1  == IF odd THEN a.e - 1 ELSE a.e
             k   == (2 * Prec + 2 - BitLen(m1)) \div 2
             n   == m1 * Pow2(2 * k)
             r   == ISqrt(n)
         IN  Round(1, r, (e1 - 2 * k) \div 2, r * r # n)

(* a < b, a <= b, a = b on float values *)
FLt(a, b) == FSub(a, b).m < 0

FLe(a, b) == FSub(a, b).m <= 0

(* The float nearest to num / den (num >= 0, 0 < den <= 10^4): what       *)
(* parsing the decimal literal num/den yields.                            *)
RoundRatio(num, den) ==
    IF num = 0 THEN Zero
    ELSE LET k == IF BitLen(num) >= 29 THEN 0 ELSE 29 - BitLen(num)
             n == num * Pow2(k)
         IN  Round(1, n \div den, -k, n % den # 0)

(* The float written as the decimal literal t/10 (27.1 is Dec(271)). *)
Dec(t) == RoundRatio(t, 10)

(***************************************************************************)
(* compute_zscore.  sum() adds from the left starting at the integer 0    *)
(* and every operation rounds (CPython before 3.12; later versions        *)
(* compensate the additions, the division by len still rounds).           *)
(***************************************************************************)
RECURSIVE SumFrom(_, _, _)
SumFrom(acc, xs, i) ==
    IF i > Len(xs) THEN acc ELSE SumFrom(FAdd(acc, xs[i]), xs, i + 1)

sum(xs) == SumFrom(Zero, xs, 1)

mean_of(values_list) == FDiv(sum(values_list), FromInt(Len(values_list)))

SqDev(values_list, mean) ==
    [i \in 1..Len(values_list) |->
        LET d == FSub(values_list[i], mean) IN FMul(d, d)]

(* the variance divided by len - 1 (the sample variance) *)
var_of_sample(values_list) ==
    IF Len(values_list) = 1 THEN Zero
    ELSE FDiv(sum(SqDev(values_list, mean_of(values_list))),
              FromInt(Len(values_list) - 1))

var_of(values_list) ==
    FDiv(sum(SqDev(values_list, mean_of(values_list))),
         FromInt(Len(values_list)))

(* a score of 0.0 instead of no score when the deviation is zero *)
compute_zscore_zero(value, values_list) ==
    IF Len(values_list) = 0 THEN None
    ELSE LET mean == mean_of(values_list)
             std  == FSqrt(var_of(values_list))
         IN  IF std.m = 0 THEN Zero
             ELSE FDiv(FSub(value, mean), std)

compute_zscore(value, values_list) ==
    IF Len(values_list) = 0 THEN None
    ELSE LET mean == mean_of(values_list)
             std  == FSqrt(var_of(values_list))
         IN  IF std.m = 0 THEN None
             ELSE FDiv(FSub(value, mean), std)

(***************************************************************************)
(* Formatting.  A decimal string is modelled by the number it spells:     *)
(* [digits, n] is n / 10^digits written with that many decimals.          *)
(***************************************************************************)

(* round(num / den) to an integer, ties to even (num >= 0, den > 0) *)
RoundHalfEven(num, den) ==
    LET q == num \div den
        r == num % den
    IN  IF 2 * r > den \/ (2 * r = den /\ q % 2 = 1) THEN q + 1 ELSE q

(* round(|x| * 10^d) for a float x with |x| * 10^d < 2^31 *)
Scaled(x, d) ==
    IF x.e >= 0 THEN Abs(x.m) * Pow2(x.e) * Pow10(d)
    ELSE RoundHalfEven(Abs(x.m) * Pow10(d), Pow2(-x.e))

(* f"{x:.2f}": x rounded to two decimals *)
Fmt2(x) == [digits |-> 2, n |-> Sgn(x.m) * Scaled(x, 2)]

(* f"{x}" is repr(x) for a float: the shortest decimal, with at least one *)
(* decimal, that parses back to x (a float of Prec bits needs at most     *)
(* four decimals for the values of the model).                            *)
Repr(x) ==
    LET ok(d) == RoundRatio(Scaled(x, d), Pow10(d)) = FAbs(x)
        ds    == {d \in 1..4 : ok(d)}
        d0    == IF ds = {} THEN 4
                 ELSE CHOOSE d \in ds : \A d2 \in ds : d <= d2
    IN  [digits |-> d0, n |-> Sgn(x.m) * Scaled(x, d0)]

(***************************************************************************)
(* The store: the measurements and alerts tables, and the database clock  *)
(* that stamps new rows (func.now(), one-second resolution: two rows      *)
(* inserted without a Tick in between carry the same stamp).  op is the   *)
(* last call: its arguments, the locals it computed and its response.     *)
(* threads holds the requests being served by the worker threads, each    *)
(* with its position in run_check and its locals (empty when requests are *)
(* served one at a time).                                                 *)
(***************************************************************************)
VARIABLES measurements, alerts, now, op, threads

vars == <<measurements, alerts, now, op, threads>>

(* bounds of the model *)
MaxCalls == 2

SeedRows == 4

MaxLen == 3

(* the values model runs draw from, in tenths *)
SstVals == {270, 320}

ChlVals == {5, 30, 35}

ScoreVals == {1, 5, 271, 320}

(* A row of the measurements table.  The class models.Measurement is not  *)
(* among the sources; its columns are the ones its callers set and read   *)
(* (sst, chl, lat, lon, timestamp, id), timestamp defaulting to the       *)
(* database clock as created_at of models.Alert does.                     *)
Measurement(id, sst, chl, lat, lon, timestamp) ==
    [id |-> id, sst |-> sst, chl |-> chl, lat |-> lat, lon |-> lon,
     timestamp |-> timestamp]

(* rows already stored when the service starts, with one stamp per row as *)
(* fetch_and_store writes them (one row per day), all before time 0       *)
Stored(n, sst, chl) ==
    [i \in 1..n |-> Measurement(i, sst, chl, None, None, i - n - 1)]

InitStores ==
    { << >>,
      Stored(SeedRows, Dec(270), Dec(5)),
      Stored(SeedRows, Dec(320), None) }

(* request bodies: None or {} (both read as {}), sst and chl alone, and    *)
(* one body that names a position                                         *)
Payloads ==
    { << >> }
    \cup { [sst |-> Dec(s), chl |-> Dec(c)] : s \in SstVals, c \in ChlVals }
    \cup { [sst |-> Dec(320), chl |-> Dec(5), lat |-> "12.9N", lon |-> "77.6E"] }

(* round(random.uniform(lo, hi), 2), within the model's values; lo and hi *)
(* in tenths (0.05 is rounded up to the next tenth)                       *)
Synthetic(vals, lo, hi) == { Dec(t) : t \in {u \in vals : lo <= u /\ u <= hi} }

(* dict.get(key, default) *)
Get(d, key, default) == IF key \in DOMAIN d THEN d[key] ELSE default

N == 30

z_threshold == FromInt(2)

sst_bound == FromInt(30)

chl_bound == FromInt(3)

(* query.order_by(timestamp.desc()): every order of the rows with stamps  *)
(* descending; rows with equal stamps come in any order.                  *)
RECURSIVE OrderByTimestampDesc(_)
OrderByTimestampDesc(rows) ==
    IF rows = {} THEN { << >> }
    ELSE UNION { { <<r>> \o t : t \in OrderByTimestampDesc(rows \ {r}) } :
                 r \in {x \in rows : \A y \in rows : x.timestamp >= y.timestamp} }

Limit(rows, n) == SubSeq(rows, 1, IF Len(rows) < n THEN Len(rows) ELSE n)

Range(f) == { f[i] : i \in DOMAIN f }

RECURSIVE NotNone(_, _)
NotNone(rows, col) ==
    IF rows = << >> THEN << >>
    ELSE IF Head(rows)[col] = None THEN NotNone(Tail(rows), col)
    ELSE <<Head(rows)[col]>> \o NotNone(Tail(rows), col)

(* the statistical rule with a strict comparison *)
Triggers_strict(sst, chl, sst_z, chl_z) ==
    (IF sst_z # None /\ FLt(z_threshold, FAbs(sst_z))
     THEN << [rule |-> "SST z=", text |-> Fmt2(sst_z)] >> ELSE << >>)
    \o
    (IF chl_z # None /\ FLt(z_threshold, FAbs(chl_z))
     THEN << [rule |-> "Chl z=", text |-> Fmt2(chl_z)] >> ELSE << >>)
    \o
    (IF FLt(sst_bound, sst)
     THEN << [rule |-> "SST too high: ", text |-> Repr(sst)] >> ELSE << >>)
    \o
    (IF FLt(chl_bound, chl)
     THEN << [rule |-> "Chl too high: ", text |-> Repr(chl)] >> ELSE << >>)

(* the absolute rules as a fallback only: skipped for a channel whose     *)
(* score is defined                                                       *)
Triggers_fallback(sst, chl, sst_z, chl_z) ==
    (IF sst_z # None /\ FLe(z_threshold, FAbs(sst_z))
     THEN << [rule |-> "SST z=", text |-> Fmt2(sst_z)] >> ELSE << >>)
    \o
    (IF chl_z # None /\ FLe(z_threshold, FAbs(chl_z))
     THEN << [rule |-> "Chl z=", text |-> Fmt2(chl_z)] >> ELSE << >>)
    \o
    (IF sst_z = None /\ FLt(sst_bound, sst)
     THEN << [rule |-> "SST too high: ", text |-> Repr(sst)] >> ELSE << >>)
    \o
    (IF chl_z = None /\ FLt(chl_bound, chl)
     THEN << [rule |-> "Chl too high: ", text |-> Repr(chl)] >> ELSE << >>)

(* the phrases channel by channel: both SST phrases, then both Chl ones *)
Triggers_by_channel(sst, chl, sst_z, chl_z) ==
    (IF sst_z # None /\ FLe(z_threshold, FAbs(sst_z))
     THEN << [rule |-> "SST z=", text |-> Fmt2(sst_z)] >> ELSE << >>)
    \o
    (IF FLt(sst_bound, sst)
     THEN << [rule |-> "SST too high: ", text |-> Repr(sst)] >> ELSE << >>)
    \o
    (IF chl_z # None /\ FLe(z_threshold, FAbs(chl_z))
     THEN << [rule |-> "Chl z=", text |-> Fmt2(chl_z)] >> ELSE << >>)
    \o
    (IF FLt(chl_bound, chl)
     THEN << [rule |-> "Chl too high: ", text |-> Repr(chl)] >> ELSE << >>)

(* the absolute rules with an inclusive comparison *)
Triggers_inclusive(sst, chl, sst_z, chl_z) ==
    (IF sst_z # None /\ FLe(z_threshold, FAbs(sst_z))
     THEN << [rule |-> "SST z=", text |-> Fmt2(sst_z)] >> ELSE << >>)
    \o
    (IF chl_z # None /\ FLe(z_threshold, FAbs(chl_z))
     THEN << [rule |-> "Chl z=", text |-> Fmt2(chl_z)] >> ELSE << >>)
    \o
    (IF FLe(sst_bound, sst)
     THEN << [rule |-> "SST too high: ", text |-> Repr(sst)] >> ELSE << >>)
    \o
    (IF FLe(chl_bound, chl)
     THEN << [rule |-> "Chl too high: ", text |-> Repr(chl)] >> ELSE << >>)

(* the absolute rule of a channel skipped when its statistical rule fired *)
Triggers_elif(sst, chl, sst_z, chl_z) ==
    (IF sst_z # None /\ FLe(z_threshold, FAbs(sst_z))
     THEN << [rule |-> "SST z=", text |-> Fmt2(sst_z)] >> ELSE << >>)
    \o
    (IF chl_z # None /\ FLe(z_threshold, FAbs(chl_z))
     THEN << [rule |-> "Chl z=", text |-> Fmt2(chl_z)] >> ELSE << >>)
    \o
    (IF ~(sst_z # None /\ FLe(z_threshold, FAbs(sst_z))) /\ FLt(sst_bound, sst)
     THEN << [rule |-> "SST too high: ", text |-> Repr(sst)] >> ELSE << >>)
    \o
    (IF ~(chl_z # None /\ FLe(z_threshold, FAbs(chl_z))) /\ FLt(chl_bound, chl)
     THEN << [rule |-> "Chl too high: ", text |-> Repr(chl)] >> ELSE << >>)

(* the decision rules of run_check, in the order the code appends them *)
Triggers(sst, chl, sst_z, chl_z) ==
    (IF sst_z # None /\ FLe(z_threshold, FAbs(sst_z))
     THEN << [rule |-> "SST z=", text |-> Fmt2(sst_z)] >> ELSE << >>)
    \o
    (IF chl_z # None /\ FLe(z_threshold, FAbs(chl_z))
     THEN << [rule |-> "Chl z=", text |-> Fmt2(chl_z)] >> ELSE << >>)
    \o
    (IF FLt(sst_bound, sst)
     THEN << [rule |-> "SST too high: ", text |-> Repr(sst)] >> ELSE << >>)
    \o
    (IF FLt(chl_bound, chl)
     THEN << [rule |-> "Chl too high: ", text |-> Repr(chl)] >> ELSE << >>)

(* " / ".join(triggers) + f" (observed sst={sst}, chl={chl})" *)
Message(triggers, sst, chl) ==
    [phrases |-> triggers, sep |-> " / ",
     observed |-> [sst |-> Repr(sst), chl |-> Repr(chl)]]

(* an alert that carries only the values of the channels that triggered *)
NewAlert_triggering_only(id, created_at, sst, chl, lat, lon, triggers) ==
    LET rules == { triggers[i].rule : i \in DOMAIN triggers }
    IN  [id |-> id, created_at |-> created_at,
         sst |-> IF rules \cap {"SST z=", "SST too high: "} # {} THEN sst ELSE None,
         chl |-> IF rules \cap {"Chl z=", "Chl too high: "} # {} THEN chl ELSE None,
         lat |-> lat, lon |-> lon, type |-> "HAB risk", status |-> "Active",
         message |-> Message(triggers, sst, chl), notified |-> FALSE]

(* models.Alert(...) as run_check builds it; id and created_at are set by *)
(* the database on commit                                                 *)
NewAlert(id, created_at, sst, chl, lat, lon, triggers) ==
    [id |-> id, created_at |-> created_at, sst |-> sst, chl |-> chl,
     lat |-> lat, lon |-> lon, type |-> "HAB risk", status |-> "Active",
     message |-> Message(triggers, sst, chl), notified |-> FALSE]

(* one alert per trigger phrase *)
Created_per_trigger(triggers, alert) == [i \in 1..Len(triggers) |-> alert]

(* the rows run_check adds to the alerts table: "if triggers:" *)
Created(triggers, alert) == IF triggers # << >> THEN <<alert>> ELSE << >>

(* the new rows take the place of the table *)
Inserted_replace(table, created) == IF created = << >> THEN table ELSE created

(* db.add and db.commit (lines 115-116): the rows are added to the table, *)
(* the rows already there are not touched                                 *)
Inserted(table, created) == table \o created

(* the two responses of run_check *)
NewAlertResponse(alert) ==
    [new_alert |-> [f \in DOMAIN alert \ {"notified"} |-> alert[f]]]

NoAnomaly_bare(sst, chl) == [status |-> "no anomaly"]

NoAnomaly(sst, chl) == [status |-> "no anomaly", sst |-> sst, chl |-> chl]

(* a synthetic value even when the payload carries the key *)
Pick_random(payload0, key, synth) == synth

(* lines 70-71: the value the payload carries under the key (None for a   *)
(* JSON null), a synthetic value when the key is absent                   *)
Pick(payload0, key, synth) ==
    IF key \in DOMAIN payload0 THEN {payload0[key]} ELSE synth

(* A call whose sst or chl is None ends in a TypeError after the          *)
(* measurement is committed and before any alert is built: None - mean at *)
(* line 49 or, when the scorer returned early, None > 30.0 at line 99 or  *)
(* None > 3.0 at line 101.  The framework answers 500.                    *)
TypeError(sst, chl) == sst = None \/ chl = None

InternalServerError == [error |-> "Internal Server Error", status_code |-> 500]

(* lines 83-88: the query of the last N rows and the two scores, one      *)
(* record per order the database may return the rows in                   *)
Scored(rows, sst, chl) ==
    { [sst_history |-> h.s, chl_history |-> h.c,
       sst_z |-> IF TypeError(sst, chl) THEN None ELSE compute_zscore(sst, h.s),
       chl_z |-> IF TypeError(sst, chl) THEN None ELSE compute_zscore(chl, h.c)] :
      h \in { [s |-> NotNone(Limit(ordered, N), "sst"),
               c |-> NotNone(Limit(ordered, N), "chl")] :
              ordered \in OrderByTimestampDesc(Range(rows)) } }

(* lines 90-130 for the scores s: the alert rows added and the response *)
Decided(n_alerts, clock, sst, chl, lat, lon, s) ==
    { [created  |-> Created(triggers,
                       NewAlert(n_alerts + 1, clock, sst, chl, lat, lon, triggers)),
       response |-> IF TypeError(sst, chl) THEN InternalServerError
                    ELSE IF triggers # << >>
                    THEN NewAlertResponse(
                       NewAlert(n_alerts + 1, clock, sst, chl, lat, lon, triggers))
                    ELSE NoAnomaly(sst, chl)] :
      triggers \in { IF TypeError(sst, chl) THEN << >>
                     ELSE Triggers(sst, chl, s.sst_z, s.chl_z) } }

(* lines 75-130 run without interruption on the tables rows0 and an       *)
(* alerts table of n_alerts rows: every outcome the call can have         *)
Evaluation(rows0, n_alerts, clock, sst, chl, lat, lon) ==
    LET meas == Measurement(Len(rows0) + 1, sst, chl, lat, lon, clock)
        rows == Append(rows0, meas)
    IN  UNION { { [measurements |-> rows, scored |-> s,
                   created |-> d.created, response |-> d.response] :
                  d \in Decided(n_alerts, clock, sst, chl, lat, lon, s) } :
                s \in Scored(rows, sst, chl) }

Init ==
    /\ measurements \in InitStores
    /\ alerts = << >>
    /\ now = 0
    /\ op = [name |-> "start", calls |-> 0]
    /\ threads = << >>

(* A second passes.  Only the order and the equality of stamps are ever    *)
(* observed, so the clock is advanced only past a stamp that is in use.   *)
Tick ==
    /\ measurements # << >>
    /\ measurements[Len(measurements)].timestamp = now
    /\ now' = now + 1
    /\ UNCHANGED <<measurements, alerts, op, threads>>

run_check(payload0) ==
    /\ op.calls < MaxCalls
    /\ \E sst \in Pick(payload0, "sst", Synthetic(SstVals, 200, 320)),
          chl \in Pick(payload0, "chl", Synthetic(ChlVals, 1, 50)) :
       LET lat == Get(payload0, "lat", Get(payload0, "latitude", "12.9"))
           lon == Get(payload0, "lon", Get(payload0, "longitude", "77.6"))
       IN  \E e \in Evaluation(measurements, Len(alerts), now, sst, chl, lat, lon) :
             /\ measurements' = e.measurements
             /\ alerts' = Inserted(alerts, e.created)
             /\ op' = [name |-> "run_check", calls |-> op.calls + 1,
                       sst |-> sst, chl |-> chl, response |-> e.response]
                      @@ e.scored
    /\ UNCHANGED <<now, threads>>

Next ==
    \/ Tick
    \/ \E payload0 \in Payloads : run_check(payload0)

Spec == Init /\ [][Next]_vars

(***************************************************************************)
(* Requests at the edges of the input domain: a JSON null for sst or chl, *)
(* and values at and just above the absolute bounds.                      *)
(***************************************************************************)
EdgePayloads ==
    { [sst |-> None, chl |-> Dec(5)],
      [sst |-> Dec(270), chl |-> None],
      [sst |-> Dec(300), chl |-> Dec(30)],
      [sst |-> Dec(301), chl |-> Dec(5)],
      [sst |-> Dec(270), chl |-> Dec(31)] }

NextEdge ==
    \/ Tick
    \/ \E payload0 \in EdgePayloads : run_check(payload0)

SpecEdge == Init /\ [][NextEdge]_vars

(***************************************************************************)
(* Requests on a table that holds about N rows: rows with both channels   *)
(* (as earlier calls of run_check wrote them, at distinct seconds)        *)
(* followed by more recent rows that carry sst only (as fetch_and_store   *)
(* writes them, chl = None).                                              *)
(***************************************************************************)
Archive(full, nulls) ==
    [i \in 1..(full + nulls) |->
        IF i <= full
        THEN Measurement(i, Dec(270), Dec(5), "12.9", "77.6", i - (full + nulls) - 1)
        ELSE Measurement(i, Dec(270), None, None, None, i - (full + nulls) - 1)]

WindowStores == { Archive(full, nulls) : full \in (N - 1)..(N + 1), nulls \in 0..2 }

WindowPayloads ==
    { [sst |-> Dec(270), chl |-> Dec(5)],
      [sst |-> Dec(320), chl |-> Dec(5)],
      [sst |-> Dec(270), chl |-> Dec(35)] }

InitWindow ==
    /\ measurements \in WindowStores
    /\ alerts = << >>
    /\ now = 0
    /\ op = [name |-> "start", calls |-> 0]
    /\ threads = << >>

NextWindow ==
    \/ Tick
    \/ \E payload0 \in WindowPayloads : run_check(payload0)

SpecWindow == InitWindow /\ [][NextWindow]_vars

(***************************************************************************)
(* Notification.  send_notifications builds one entry per known channel   *)
(* named in channels (an unknown channel is skipped, a channel named      *)
(* twice is sent twice and keeps one entry); the targets default to the   *)
(* demo addresses (the DEMO_* environment variables are not set).         *)
(***************************************************************************)
send_sms_mock(to, body) == [status |-> "mock_sent", channel |-> "sms", to |-> to]

send_telegram_mock(chat_id, body) ==
    [status |-> "mock_sent", channel |-> "telegram", chat_id |-> chat_id]

send_email_mock(to_email, subject, body) ==
    [status |-> "mock_sent", channel |-> "email", to |-> to_email]

(* one entry for every channel named, the unknown ones marked as failed *)
send_notifications_all(alert_obj, channels, targets) ==
    [ch \in Range(channels) |->
        CASE ch = "sms" ->
               send_sms_mock(Get(targets, "sms", "+0000000000"), alert_obj.message)
          [] ch = "telegram" ->
               send_telegram_mock(Get(targets, "telegram", "demo_chat"),
                                  alert_obj.message)
          [] ch = "email" ->
               send_email_mock(Get(targets, "email", "demo@example.com"),
                               "Advisory", alert_obj.message)
          [] OTHER -> [status |-> "failed", channel |-> ch]]

send_notifications(alert_obj, channels, targets) ==
    LET body == [advisory |-> alert_obj.type, text |-> alert_obj.message]
    IN  [ch \in Range(channels) \cap {"sms", "telegram", "email"} |->
            CASE ch = "sms" ->
                   send_sms_mock(Get(targets, "sms", "+0000000000"), body)
              [] ch = "telegram" ->
                   send_telegram_mock(Get(targets, "telegram", "demo_chat"), body)
              [] ch = "email" ->
                   send_email_mock(Get(targets, "email", "demo@example.com"),
                                   "Advisory", body)]

(* the mock deliveries send_notifications performs (the lines the mocks   *)
(* log), in the order of channels: one for each occurrence of a known     *)
(* channel                                                                *)
RECURSIVE Deliveries(_, _, _)
Deliveries(alert_obj, channels, targets) ==
    IF channels = << >> THEN << >>
    ELSE (IF Head(channels) \in {"sms", "telegram", "email"}
          THEN << send_notifications(alert_obj, <<Head(channels)>>, targets)
                     [Head(channels)] >>
          ELSE << >>)
         \o Deliveries(alert_obj, Tail(channels), targets)

(* the flag set only when something was delivered *)
Notified_if_sent(alert, result) ==
    [alert EXCEPT !.notified = (DOMAIN result # {})]

(* the row after a notification that also moves the alert to "Notified" *)
Notified_status(alert, result) ==
    [alert EXCEPT !.notified = TRUE, !.status = "Notified"]

(* lines 170-174: the row of the alert after the commit and the refresh.  *)
(* notified is a column of models.Alert; notifier_info is not, so the     *)
(* assignment of line 171 sets a plain attribute of the Python object,    *)
(* which the commit does not write and which is gone with the request.    *)
Notified(alert, result) == [alert EXCEPT !.notified = TRUE]

(* an answer of 200 with nothing sent, instead of the 404 *)
NotFound_silent == [sent |-> << >>]

NotFound == [status_code |-> 404, detail |-> "Alert not found"]

NotifyPayloads ==
    { [sst |-> Dec(320), chl |-> Dec(5)],
      [sst |-> Dec(270), chl |-> Dec(5)],
      [sst |-> Dec(270), chl |-> Dec(35)] }

Bodies ==
    { << >>,
      [channels |-> <<"sms">>],
      [channels |-> <<"sms", "email", "fax", "sms">>,
       targets |-> [sms |-> "+911234", email |-> "a@b"]],
      [channels |-> <<"telegram">>, targets |-> [telegram |-> "chat_id"]],
      [channels |-> <<"fax">>] }

notify_alert(alert_id, body0) ==
    LET channels == Get(body0, "channels", << >>)
        targets  == Get(body0, "targets", << >>)
        found    == { i \in DOMAIN alerts : alerts[i].id = alert_id }
    IN  /\ IF found = {}
           THEN /\ alerts' = alerts
                /\ op' = [name |-> "notify_alert", calls |-> op.calls,
                          alert_id |-> alert_id, body |-> body0,
                          deliveries |-> << >>,
                          response |-> NotFound]
           ELSE LET i      == CHOOSE j \in found : \A k \in found : j <= k
                    result == send_notifications(alerts[i], channels, targets)
                IN  /\ alerts' = [alerts EXCEPT ![i] = Notified(alerts[i], result)]
                    /\ op' = [name |-> "notify_alert", calls |-> op.calls,
                              alert_id |-> alert_id, body |-> body0,
                              deliveries |->
                                  Deliveries(alerts[i], channels, targets),
                              response |-> [sent |-> result]]
        /\ UNCHANGED <<measurements, now, threads>>

NextNotify ==
    \/ Tick
    \/ \E payload0 \in NotifyPayloads : run_check(payload0)
    \/ \E alert_id \in 1..MaxCalls, body0 \in Bodies : notify_alert(alert_id, body0)

SpecNotify == Init /\ [][NextNotify]_vars

(***************************************************************************)
(* get_alerts (alerts.py, lines 52-59): GET /alerts/ with an optional      *)
(* status in the query string.  The query is a function from parameter     *)
(* names to strings: << >> is a request without parameters,                *)
(* [status |-> ""] is the request "?status=".                              *)
(***************************************************************************)
Queries == { << >>, [status |-> ""], [status |-> "Active"], [status |-> "Resolved"] }

(* the status is never looked at *)
Filtered_all(table, query0) == Range(table)

(* lines 55-57: "if status:" holds for a string that is not empty; the    *)
(* parameter defaults to None                                              *)
Filtered(table, query0) ==
    IF "status" \in DOMAIN query0 /\ query0.status # ""
    THEN { a \in Range(table) : a.status = query0.status }
    ELSE Range(table)

(* line 58, order_by(created_at.desc()): every order of the rows with     *)
(* created_at descending; rows of the same second come in any order.      *)
RECURSIVE OrderByCreatedAtDesc(_)
OrderByCreatedAtDesc(rows) ==
    IF rows = {} THEN { << >> }
    ELSE UNION { { <<r>> \o t : t \in OrderByCreatedAtDesc(rows \ {r}) } :
                 r \in {x \in rows : \A y \in rows : x.created_at >= y.created_at} }

get_alerts(query0) ==
    /\ \E listed \in OrderByCreatedAtDesc(Filtered(alerts, query0)) :
          op' = [name |-> "get_alerts", calls |-> op.calls, query |-> query0,
                 response |-> [alerts |-> listed]]
    /\ UNCHANGED <<measurements, alerts, now, threads>>

NextList ==
    \/ Tick
    \/ \E payload0 \in NotifyPayloads : run_check(payload0)
    \/ \E query0 \in Queries : get_alerts(query0)

SpecList == Init /\ [][NextList]_vars

(***************************************************************************)
(* fetch_obis (etl/adapters/obis_adapter.py, lines 24-67): the paging loop *)
(* against the OBIS server.  op holds the frame of the call, one step of   *)
(* the model is one turn of the loop together with the server's answer to  *)
(* its request, or the return.  A record is named by its position in the  *)
(* server's data set.                                                      *)
(***************************************************************************)
MaxSize == 3

MaxPages == 2

MaxPageSize == 2

Min(a, b) == IF a < b THEN a ELSE b

(* the frame after lines 33-37, for every choice of the arguments *)
InitObis ==
    /\ measurements = << >>
    /\ alerts = << >>
    /\ now = 0
    /\ threads = << >>
    /\ \E size \in 0..MaxSize, max_pages \in 0..MaxPages, page_size \in 1..MaxPageSize :
          op = [name |-> "fetch_obis", pc |-> "while", size |-> size,
                max_pages |-> max_pages, page_size |-> page_size,
                results |-> << >>, offset |-> 0, page |-> 0,
                requests |-> 0, last |-> "none"]

(* the loop goes on until the server has nothing more, whatever the cap *)
LoopCond_uncapped(o) == Len(o.results) < o.size

(* line 38 *)
LoopCond(o) == Len(o.results) < o.size /\ o.page < o.max_pages

(* line 40: the size asked of the server *)
Requested(o) == Min(o.page_size, o.size - Len(o.results))

(* lines 63-65: the records of the earlier pages stay in results *)
Failed(o) == [o EXCEPT !.pc = "return", !.requests = @ + 1, !.last = "error"]

(* requests.get, raise_for_status, r.json or payload.get raise: a network *)
(* error, an HTTP error status, a body that is not JSON or not an object   *)
request_fails ==
    /\ op.name = "fetch_obis" /\ op.pc = "while" /\ LoopCond(op)
    /\ op' = Failed(op)
    /\ UNCHANGED <<measurements, alerts, now, threads>>

(* lines 52-53: the page has no records ({}, or an empty list under       *)
(* "results")                                                              *)
empty_page ==
    /\ op.name = "fetch_obis" /\ op.pc = "while" /\ LoopCond(op)
    /\ op' = [op EXCEPT !.pc = "return", !.requests = @ + 1, !.last = "empty"]
    /\ UNCHANGED <<measurements, alerts, now, threads>>

(* lines 54-55 and 60-61: a page of k records, k >= 1; the server may     *)
(* send fewer than asked (short page) or more                              *)
page_of(k) ==
    /\ op.name = "fetch_obis" /\ op.pc = "while" /\ LoopCond(op)
    /\ k <= Requested(op) + 1
    /\ op' = [op EXCEPT !.results = @ \o [i \in 1..k |-> op.offset + i],
                        !.offset = @ + Requested(op),
                        !.page = @ + 1,
                        !.requests = @ + 1,
                        !.last = IF k < Requested(op) THEN "short" ELSE "full"]
    /\ UNCHANGED <<measurements, alerts, now, threads>>

(* lines 56-58 and 60-61: the body is one record, not a list *)
single_record ==
    /\ op.name = "fetch_obis" /\ op.pc = "while" /\ LoopCond(op)
    /\ op' = [op EXCEPT !.results = Append(@, op.offset + 1),
                        !.offset = @ + Requested(op),
                        !.page = @ + 1,
                        !.requests = @ + 1,
                        !.last = "single"]
    /\ UNCHANGED <<measurements, alerts, now, threads>>

(* lines 66-67, after a break or when the loop condition fails *)
return_results ==
    /\ op.name = "fetch_obis"
    /\ op.pc = "return" \/ (op.pc = "while" /\ ~LoopCond(op))
    /\ op' = [op EXCEPT !.pc = "done"]
    /\ UNCHANGED <<measurements, alerts, now, threads>>

NextObis ==
    \/ request_fails
    \/ empty_page
    \/ \E k \in 1..(MaxPageSize + 1) : page_of(k)
    \/ single_record
    \/ return_results

(* the loop is sequential code and every request has a timeout: a step    *)
(* that can be taken is taken                                              *)
SpecObis == InitObis /\ [][NextObis]_vars /\ WF_vars(NextObis)

(***************************************************************************)
(* load_csv (measurements.py, lines 31-61).  A file is its header and its  *)
(* rows of cell texts.  pandas.read_csv types every column as a whole: a   *)
(* column whose cells are all numbers or empty becomes numeric, its empty  *)
(* cells NaN; a column with one cell that is not a number keeps its cells  *)
(* as strings, the empty ones again NaN.  The files here have the columns  *)
(* sst and chl; the other names the handler looks up are absent and        *)
(* Series.get answers None for them.                                       *)
(***************************************************************************)
MaxRows == 2

MaxLoads == 1

NaN == [nan |-> TRUE]

SstTexts == {"28.5", "0", "", "n/a"}

ChlTexts == {"0.5", "n/a"}

(* the texts that read as numbers, and the number each one reads as *)
NumericTexts == {"28.5", "0", "0.5"}

Number(text) ==
    CASE text = "28.5" -> Dec(285)
      [] text = "0" -> Zero
      [] text = "0.5" -> Dec(5)

Files ==
    { [columns |-> {}, rows |-> << >>] } \cup
    { [columns |-> {"sst", "chl"}, rows |-> rows] :
        rows \in UNION { [1..n -> [sst : SstTexts, chl : ChlTexts]] : n \in 0..MaxRows } }

(* line 38: the data frame of a file *)
read_csv(file) ==
    LET numeric(col) == \A i \in DOMAIN file.rows :
                           file.rows[i][col] \in NumericTexts \cup {""}
        cell(col, text) == IF text = "" THEN NaN
                           ELSE IF numeric(col) THEN Number(text)
                           ELSE [str |-> text]
    IN  [i \in DOMAIN file.rows |->
           [col \in file.columns |-> cell(col, file.rows[i][col])]]

(* the truth value of a cell: None and the number 0 are false, NaN and a  *)
(* string (never empty here) are true                                      *)
Truthy(x) == x # None /\ x # Zero

(* "a or b" *)
Or(a, b) == IF Truthy(a) THEN a ELSE b

(* float(x) raises TypeError for None and ValueError for a string that is *)
(* not a number                                                            *)
Raises(x) == x = None \/ ("str" \in DOMAIN x /\ x.str \notin NumericTexts)

Float(x) == IF "str" \in DOMAIN x THEN Number(x.str) ELSE x

(* SQLite stores NaN as NULL *)
Column(x) == IF x = NaN THEN None ELSE x

(* line 45, the argument of float *)
sst_of(r) == Or(Get(r, "sst", None), Get(r, "SST", None))

(* line 46, the argument of float *)
chl_of(r) == Or(Get(r, "chl", None), Or(Get(r, "Chl", None), Get(r, "chlorophyll", Zero)))

(* lines 42-59: the loop over the rows from row i on; added are the rows  *)
(* given to db.add, inserted the counter                                   *)
RECURSIVE Loaded(_, _, _, _, _)
Loaded(df, i, added, inserted, first_id) ==
    IF i > Len(df) THEN [added |-> added, inserted |-> inserted]
    ELSE IF Raises(sst_of(df[i])) \/ Raises(chl_of(df[i]))
    THEN Loaded(df, i + 1, added, inserted, first_id)
    ELSE Loaded(df, i + 1,
                Append(added, Measurement(first_id + Len(added),
                                          Column(Float(sst_of(df[i]))),
                                          Column(Float(chl_of(df[i]))),
                                          None, None, now)),
                inserted + 1, first_id)

load_csv(file) ==
    /\ op.calls < MaxLoads
    /\ IF file.columns = {}
       THEN /\ op' = [name |-> "load_csv", calls |-> op.calls + 1, file |-> file,
                      response |-> [status_code |-> 400, detail |-> "CSV parse error"]]
            /\ UNCHANGED measurements
       ELSE \E l \in { Loaded(read_csv(file), 1, << >>, 0, Len(measurements) + 1) } :
              /\ measurements' = measurements \o l.added
              /\ op' = [name |-> "load_csv", calls |-> op.calls + 1, file |-> file,
                        response |-> [status |-> "ok", inserted |-> l.inserted]]
    /\ UNCHANGED <<alerts, now, threads>>

NextCsv == \E file \in Files : load_csv(file)

SpecCsv == Init /\ [][NextCsv]_vars

(***************************************************************************)
(* Requests on a table of at most three rows whose values are equal or    *)
(* one unit in the last place apart (1.0 and the next float above it,     *)
(* the decimal 1.0002 in the model's format, 1.0000000000000002 in        *)
(* binary64).                                                             *)
(***************************************************************************)
Near == { FromInt(1), RoundRatio(10002, 10000) }

SmallStores ==
    UNION { { [i \in 1..n |->
                 Measurement(i, f[i], Dec(5), "12.9", "77.6", i - n - 1)] :
              f \in [1..n -> Near] } : n \in 0..3 }

SmallPayloads == { [sst |-> v, chl |-> Dec(5)] : v \in Near }

InitSmall ==
    /\ measurements \in SmallStores
    /\ alerts = << >>
    /\ now = 0
    /\ op = [name |-> "start", calls |-> 0]
    /\ threads = << >>

NextSmall ==
    \/ Tick
    \/ \E payload0 \in SmallPayloads : run_check(payload0)

SpecSmall == InitSmall /\ [][NextSmall]_vars

(***************************************************************************)
(* The same request evaluated twice on the same tables: the request is    *)
(* served (lines 68-130) and served again from the snapshot of the store  *)
(* taken before the first evaluation; op keeps both responses.            *)
(***************************************************************************)
TwicePayloads ==
    { [chl |-> Dec(5)],
      [sst |-> Dec(270), chl |-> Dec(30)],
      [sst |-> Dec(320), chl |-> Dec(35), lat |-> "12.9N", lon |-> "77.6E"] }

run_check_twice(payload0) ==
    /\ op.calls < MaxCalls
    /\ \E sst \in Pick(payload0, "sst", Synthetic(SstVals, 200, 320)),
          chl \in Pick(payload0, "chl", Synthetic(ChlVals, 1, 50)) :
       LET lat == Get(payload0, "lat", Get(payload0, "latitude", "12.9"))
           lon == Get(payload0, "lon", Get(payload0, "longitude", "77.6"))
       IN  \E e \in Evaluation(measurements, Len(alerts), now, sst, chl, lat, lon) :
             /\ measurements' = e.measurements
             /\ alerts' = Inserted(alerts, e.created)
             /\ \E sst2 \in Pick(payload0, "sst", Synthetic(SstVals, 200, 320)),
                   chl2 \in Pick(payload0, "chl", Synthetic(ChlVals, 1, 50)) :
                \E e2 \in Evaluation(measurements, Len(alerts), now,
                                      sst2, chl2, lat, lon) :
                   op' = [name |-> "run_check", calls |-> op.calls + 1,
                          payload |-> payload0,
                          sst |-> sst, chl |-> chl, response |-> e.response,
                          again |-> e2.response]
                         @@ e.scored
    /\ UNCHANGED <<now, threads>>

NextTwice ==
    \/ Tick
    \/ \E payload0 \in TwicePayloads : run_check_twice(payload0)

SpecTwice == Init /\ [][NextTwice]_vars

(***************************************************************************)
(* Requests served at the same time.  run_check is a plain def, which the *)
(* framework runs on worker threads, each with its own database session:  *)
(* the steps of a request that other requests can observe or be affected  *)
(* by are its commits and its query.  A thread serves one request:        *)
(*   persist  lines 68-79   pick the values, insert the measurement       *)
(*   query    lines 83-88   read the last N rows, compute the scores      *)
(*   decide   lines 90-130  apply the rules, insert the alert, respond    *)
(* A frame also keeps alone, what the request would have answered had it  *)
(* run without interruption on the tables it found when it started.       *)
(***************************************************************************)
Workers == 2

ConcPayloads ==
    { [sst |-> Dec(270), chl |-> Dec(30)],
      [sst |-> Dec(270), chl |-> Dec(5)],
      [sst |-> Dec(320), chl |-> Dec(5)] }

InitConc ==
    /\ measurements \in InitStores
    /\ alerts = << >>
    /\ now = 0
    /\ op = [name |-> "start", calls |-> 0]
    /\ threads = [t \in 1..Workers |-> [pc |-> "idle"]]

persist(t, payload0) ==
    /\ threads[t].pc = "idle"
    /\ \E sst \in Pick(payload0, "sst", Synthetic(SstVals, 200, 320)),
          chl \in Pick(payload0, "chl", Synthetic(ChlVals, 1, 50)) :
       LET lat == Get(payload0, "lat", Get(payload0, "latitude", "12.9"))
           lon == Get(payload0, "lon", Get(payload0, "longitude", "77.6"))
       IN  /\ measurements' =
                 Append(measurements,
                        Measurement(Len(measurements) + 1, sst, chl, lat, lon, now))
           /\ threads' = [threads EXCEPT ![t] =
                 [pc |-> "persisted", sst |-> sst, chl |-> chl,
                  lat |-> lat, lon |-> lon,
                  alone |-> { e.response :
                              e \in Evaluation(measurements, Len(alerts), now,
                                               sst, chl, lat, lon) }]]
    /\ UNCHANGED <<alerts, now, op>>

query(t) ==
    /\ threads[t].pc = "persisted"
    /\ \E s \in Scored(measurements, threads[t].sst, threads[t].chl) :
          threads' = [threads EXCEPT ![t] =
                         [threads[t] EXCEPT !.pc = "scored"] @@ [scored |-> s]]
    /\ UNCHANGED <<measurements, alerts, now, op>>

decide(t) ==
    /\ threads[t].pc = "scored"
    /\ LET f == threads[t]
       IN  \E d \in Decided(Len(alerts), now, f.sst, f.chl, f.lat, f.lon, f.scored) :
             /\ alerts' = Inserted(alerts, d.created)
             /\ threads' = [threads EXCEPT ![t] =
                               [f EXCEPT !.pc = "done"] @@ [response |-> d.response]]
    /\ UNCHANGED <<measurements, now, op>>

NextConc ==
    \/ Tick
    \/ \E t \in 1..Workers, payload0 \in ConcPayloads : persist(t, payload0)
    \/ \E t \in 1..Workers : query(t)
    \/ \E t \in 1..Workers : decide(t)

SpecConc == InitConc /\ [][NextConc]_vars

(***************************************************************************)
(* compute_zscore on its own: one call with a value and a list drawn from *)
(* ScoreVals, lists of up to MaxLen values.                               *)
(***************************************************************************)
ScoreLists == UNION { [1..n -> ScoreVals] : n \in 0..MaxLen }

InitScore ==
    /\ measurements = << >>
    /\ alerts = << >>
    /\ now = 0
    /\ threads = << >>
    /\ op \in { [name |-> "args", calls |-> 0, value_lit |-> v, list_lit |-> l] :
                  v \in ScoreVals, l \in ScoreLists }

score ==
    /\ op.name = "args"
    /\ op' = [name |-> "compute_zscore", calls |-> 0,
              value_lit |-> op.value_lit, list_lit |-> op.list_lit,
              result |-> compute_zscore(Dec(op.value_lit),
                             [i \in 1..Len(op.list_lit) |-> Dec(op.list_lit[i])])]
    /\ UNCHANGED <<measurements, alerts, now, threads>>

NextScore == score

SpecScore == InitScore /\ [][NextScore]_vars

(***************************************************************************)
(* Properties                                                              *)
(***************************************************************************)

(* exact statistics of a list of literals (tenths), in integers:          *)
(* z = ExactNum / sqrt(ExactRad) is (v - mean) / std with the population  *)
(* mean and standard deviation                                            *)
RECURSIVE SumLit(_)
SumLit(l) == IF l = << >> THEN 0 ELSE Head(l) + SumLit(Tail(l))

RECURSIVE SumSqLit(_)
SumSqLit(l) == IF l = << >> THEN 0 ELSE Head(l) * Head(l) + SumSqLit(Tail(l))

ExactNum(v, l) == Len(l) * v - SumLit(l)

ExactRad(l) == Len(l) * SumSqLit(l) - SumLit(l) * SumLit(l)

Constant(l) == \A i, j \in DOMAIN l : l[i] = l[j]

C2_ConstantHistoryGivesNone ==
    (op.name = "compute_zscore" /\ Constant(op.list_lit)) => op.result = None

(* what a call of run_check decided, read from its response *)
PhraseRules(message) == { message.phrases[i].rule : i \in DOMAIN message.phrases }

Fired(o) ==
    IF o.name = "run_check" /\ "new_alert" \in DOMAIN o.response
    THEN PhraseRules(o.response.new_alert.message)
    ELSE {}

(* |z| >= 2 read off the representation: a float of Prec bits is at least *)
(* 2 in magnitude exactly when its exponent is at least 2 - Prec          *)
AtLeastTwo(z) == z # None /\ z.m # 0 /\ z.e >= 2 - Prec

Two == [m |-> Pow2(Prec - 1), e |-> 2 - Prec]

(* x > bound / 10, compared on the decimals that x was written with *)
Over(x, bound) ==
    LET r == Repr(x) IN r.n * Pow10(4 - r.digits) > bound * Pow10(3)

AnyRule(o) ==
    \/ AtLeastTwo(o.sst_z)
    \/ AtLeastTwo(o.chl_z)
    \/ Over(o.sst, 300)
    \/ Over(o.chl, 30)

LastAlert == alerts[Len(alerts)]

(* C3: the statistical rule of a channel fires exactly when the channel's *)
(* score is defined and its magnitude is at least 2.0 (2.0 and -2.0       *)
(* included); an undefined score never fires it.                          *)
C3_StatisticalRuleInclusive ==
    op.name = "run_check" =>
        /\ ("SST z=" \in Fired(op)) <=> AtLeastTwo(op.sst_z)
        /\ ("Chl z=" \in Fired(op)) <=> AtLeastTwo(op.chl_z)

C3_Witness ==
    /\ op.name = "run_check"
    /\ op.sst_z = Two
    /\ op.chl_z = None
    /\ Fired(op) = {"SST z=", "SST too high: "}

(* C4: a call whose observed sst is above 30.0 (chl above 3.0) stores an  *)
(* alert whose message holds the "SST too high" ("Chl too high") phrase,  *)
(* with or without a defined score.                                       *)
C4_AbsoluteRuleAlwaysAlerts ==
    op.name = "run_check" =>
        /\ Over(op.sst, 300) =>
              /\ "new_alert" \in DOMAIN op.response
              /\ alerts # << >>
              /\ LastAlert.id = op.response.new_alert.id
              /\ "SST too high: " \in PhraseRules(LastAlert.message)
        /\ Over(op.chl, 30) =>
              /\ "new_alert" \in DOMAIN op.response
              /\ alerts # << >>
              /\ LastAlert.id = op.response.new_alert.id
              /\ "Chl too high: " \in PhraseRules(LastAlert.message)

C4_Witness ==
    /\ op.name = "run_check"
    /\ op.sst_z = None
    /\ op.chl_z # None
    /\ Over(op.sst, 300)
    /\ alerts # << >>
    /\ PhraseRules(LastAlert.message) = {"SST too high: "}

(* C5: a call of run_check adds exactly one alert when at least one rule  *)
(* fires, whatever the number of rules and channels that fire, and never  *)
(* more than one; the alerts stored before stay in place.                 *)
C5_OneAlertPerFiringCall ==
    [][op'.calls = op.calls + 1 =>
          /\ Len(alerts') \in {Len(alerts), Len(alerts) + 1}
          /\ SubSeq(alerts', 1, Len(alerts)) = alerts
          /\ AnyRule(op') => Len(alerts') = Len(alerts) + 1]_vars

C5_Witness ==
    /\ op.name = "run_check"
    /\ op.calls = 2
    /\ Len(alerts) = 2
    /\ Cardinality(Fired(op)) >= 3

(* C6: a call in which no rule fires returns the "no anomaly" result with *)
(* the observed sst and chl, and leaves the alerts table as it was.       *)
C6_NoRuleNoAlert ==
    [][(op'.calls = op.calls + 1 /\ ~AnyRule(op')) =>
          /\ alerts' = alerts
          /\ op'.response = [status |-> "no anomaly",
                             sst |-> op'.sst, chl |-> op'.chl]]_vars

C6_Witness ==
    /\ op.name = "run_check"
    /\ op.calls = 2
    /\ ~AnyRule(op)
    /\ "status" \in DOMAIN op.response
    /\ Len(alerts) = 1

(* C7: every stored alert is "Active" and of type "HAB risk", and the     *)
(* alert a call creates carries the observed sst and chl of that call,    *)
(* the channel that did not trigger included.                             *)
C7_AlertRecord ==
    /\ \A i \in DOMAIN alerts :
          alerts[i].status = "Active" /\ alerts[i].type = "HAB risk"
    /\ (op.name = "run_check" /\ "new_alert" \in DOMAIN op.response) =>
          /\ alerts # << >>
          /\ LastAlert.id = op.response.new_alert.id
          /\ LastAlert.sst = op.sst
          /\ LastAlert.chl = op.chl

C7_Witness ==
    /\ op.name = "run_check"
    /\ Fired(op) = {"Chl too high: "}
    /\ LastAlert.sst = Dec(270)
    /\ LastAlert.chl = Dec(35)

IsSst(rule) == rule \in {"SST z=", "SST too high: "}

IsChl(rule) == rule \in {"Chl z=", "Chl too high: "}

Rank(rule) ==
    CASE rule = "SST z=" -> 1
      [] rule = "Chl z=" -> 2
      [] rule = "SST too high: " -> 3
      [] rule = "Chl too high: " -> 4

(* C8 as claimed: in every alert message every SST phrase precedes every  *)
(* Chl phrase.                                                            *)
C8_TemperatureBeforeChlorophyll ==
    \A k \in DOMAIN alerts :
        LET ph == alerts[k].message.phrases
        IN  \A i, j \in DOMAIN ph :
                (IsChl(ph[i].rule) /\ IsSst(ph[j].rule)) => j < i

(* C8 amended: the phrases of every alert message are in the fixed order  *)
(* "SST z=", "Chl z=", "SST too high:", "Chl too high:": the statistical  *)
(* phrases come before the absolute ones and, within a rule family, SST   *)
(* comes before Chl.                                                      *)
C8_PhrasesInRuleOrder ==
    \A k \in DOMAIN alerts :
        LET ph == alerts[k].message.phrases
        IN  \A i, j \in DOMAIN ph :
                i < j => Rank(ph[i].rule) < Rank(ph[j].rule)

C8_Witness ==
    \E k \in DOMAIN alerts :
        LET ph == alerts[k].message.phrases
        IN  \E i \in DOMAIN ph :
                /\ i + 1 \in DOMAIN ph
                /\ ph[i].rule = "Chl z="
                /\ ph[i + 1].rule = "SST too high: "

(* the number of rows with a value in a column *)
Count(rows, col) == Cardinality({ i \in DOMAIN rows : rows[i][col] # None })

(* the rows stored before the last call of run_check *)
Earlier == SubSeq(measurements, 1, Len(measurements) - 1)

(* C9: the history a call scores against holds only measurements stored   *)
(* before the call (so no more values than were stored before it), and is *)
(* empty when none was.                                                   *)
C9_HistoryExcludesObservation ==
    op.name = "run_check" =>
        /\ Len(op.sst_history) <= Count(Earlier, "sst")
        /\ Len(op.chl_history) <= Count(Earlier, "chl")

(* C10: when the values of a channel stored before the call are all       *)
(* identical, the call has no score for the channel and its statistical   *)
(* rule does not fire.                                                    *)
C10_ConstantHistoryNoScore ==
    op.name = "run_check" =>
        /\ Constant(NotNone(Earlier, "sst")) =>
              op.sst_z = None /\ "SST z=" \notin Fired(op)
        /\ Constant(NotNone(Earlier, "chl")) =>
              op.chl_z = None /\ "Chl z=" \notin Fired(op)

(* the values of a column that a call made on the table rows would read   *)
(* from the store, in every order the query may return them               *)
Recent(rows, col) ==
    { NotNone(Limit(ordered, N), col) : ordered \in OrderByTimestampDesc(Range(rows)) }

(* C11: a call of run_check leaves the stored history as it was: the      *)
(* values a later call reads from the store for each channel are the same *)
(* after the call as before it.                                           *)
C11_CallLeavesHistoryUnchanged ==
    [][op'.calls = op.calls + 1 =>
          /\ Recent(measurements', "sst") = Recent(measurements, "sst")
          /\ Recent(measurements', "chl") = Recent(measurements, "chl")]_vars

(* what a response says, without the id and the creation stamp that the  *)
(* database assigns                                                       *)
Content(response) ==
    IF "new_alert" \in DOMAIN response
    THEN [decision |-> "alert",
          alert |-> [f \in {"type", "status", "message", "sst", "chl"} |->
                        response.new_alert[f]]]
    ELSE [decision |-> "none", result |-> response]

C13_InterleavingIndependent ==
    \A t \in DOMAIN threads :
        threads[t].pc = "done" =>
            Content(threads[t].response) \in
                { Content(r) : r \in threads[t].alone }

(* C14: a call whose sst or chl is not a number (a JSON null) is rejected *)
(* before scoring as a validation failure: it stores no measurement,      *)
(* creates no alert and answers with a client error, not with an alert.   *)
C14_NullRejectedBeforeScoring ==
    [][(op'.calls = op.calls + 1 /\ (op'.sst = None \/ op'.chl = None)) =>
          /\ measurements' = measurements
          /\ alerts' = alerts
          /\ "new_alert" \notin DOMAIN op'.response
          /\ "status_code" \in DOMAIN op'.response
          /\ op'.response.status_code \in 400..499]_vars

(* the last call found the measurements table empty *)
ColdStart == op.name = "run_check" /\ Len(measurements) = 1

(* C15: a call made when no measurement was stored before has no score    *)
(* for either channel and fires no statistical rule; it creates an alert  *)
(* exactly when sst > 30.0 or chl > 3.0, and the message names exactly    *)
(* the channels above their bound.                                        *)
C15_ColdStartAbsoluteOnly ==
    ColdStart =>
        /\ op.sst_z = None
        /\ op.chl_z = None
        /\ Fired(op) \cap {"SST z=", "Chl z="} = {}
        /\ (alerts # << >>) <=> (Over(op.sst, 300) \/ Over(op.chl, 30))
        /\ ("new_alert" \in DOMAIN op.response) <=> (alerts # << >>)
        /\ alerts # << >> =>
              /\ Len(alerts) = 1
              /\ ("SST too high: " \in PhraseRules(alerts[1].message))
                    <=> Over(op.sst, 300)
              /\ ("Chl too high: " \in PhraseRules(alerts[1].message))
                    <=> Over(op.chl, 30)
              /\ PhraseRules(alerts[1].message)
                    \subseteq {"SST too high: ", "Chl too high: "}

C15_Witness ==
    /\ ColdStart
    /\ op.sst = Dec(270)
    /\ op.chl = Dec(35)
    /\ Len(alerts) = 1
    /\ PhraseRules(alerts[1].message) = {"Chl too high: "}
    /\ op.sst_history = <<Dec(270)>>

(* C16: the history of a channel never holds more than N = 30 values or  *)
(* a None, and it holds N values whenever at least N values of that       *)
(* channel are stored, whatever the other recent rows carry.              *)
C16_WindowOfNumericValues ==
    op.name = "run_check" =>
        /\ Len(op.sst_history) <= N
        /\ Len(op.chl_history) <= N
        /\ \A i \in DOMAIN op.sst_history : op.sst_history[i] # None
        /\ \A i \in DOMAIN op.chl_history : op.chl_history[i] # None
        /\ Count(measurements, "sst") >= N => Len(op.sst_history) = N
        /\ Count(measurements, "chl") >= N => Len(op.chl_history) = N

(* C17: in every state reached by calls of run_check and notify_alert,   *)
(* every stored alert has status "Active".                                *)
C17_AlertsStayActive ==
    \A i \in DOMAIN alerts : alerts[i].status = "Active"

C17_Witness ==
    /\ op.name = "notify_alert"
    /\ "sent" \in DOMAIN op.response
    /\ DOMAIN op.response.sent = {"sms", "email"}
    /\ Len(alerts) = 2
    /\ alerts[1].notified
    /\ alerts[2].notified
    /\ alerts[2].status = "Active"

(* C18: after notify_alert succeeds, the stored alert carries the results *)
(* that send_notifications returned and notified = TRUE; its type,        *)
(* status, message, sst and chl and all other alerts are unchanged.       *)
C18_ResultsRecordedOnAlert ==
    [][(op'.name = "notify_alert" /\ "sent" \in DOMAIN op'.response) =>
          /\ Len(alerts') = Len(alerts)
          /\ \A i \in DOMAIN alerts :
                IF alerts[i].id = op'.alert_id
                THEN /\ alerts'[i].notified = TRUE
                     /\ "notifier_info" \in DOMAIN alerts'[i]
                     /\ alerts'[i].notifier_info = op'.response.sent
                     /\ \A f \in {"type", "status", "message", "sst", "chl"} :
                           alerts'[i][f] = alerts[i][f]
                ELSE alerts'[i] = alerts[i]]_vars

(* the float that a printed decimal reads back as *)
Parsed(text) == RoundRatio(Abs(text.n), Pow10(text.digits))

(* C19: the message of the alert a call creates holds the phrase of a     *)
(* rule exactly when that rule fired in the call, each phrase once (a     *)
(* channel that trips both of its rules contributes both phrases); the    *)
(* phrases are joined by " / " and followed by the observed sst and chl.  *)
C19_MessageNamesFiredRules ==
    (op.name = "run_check" /\ "new_alert" \in DOMAIN op.response) =>
        LET msg == LastAlert.message
        IN  /\ msg = op.response.new_alert.message
            /\ ("SST z=" \in PhraseRules(msg)) <=> AtLeastTwo(op.sst_z)
            /\ ("Chl z=" \in PhraseRules(msg)) <=> AtLeastTwo(op.chl_z)
            /\ ("SST too high: " \in PhraseRules(msg)) <=> Over(op.sst, 300)
            /\ ("Chl too high: " \in PhraseRules(msg)) <=> Over(op.chl, 30)
            /\ Len(msg.phrases) = Cardinality(PhraseRules(msg))
            /\ msg.sep = " / "
            /\ DOMAIN msg.observed = {"sst", "chl"}
            /\ Parsed(msg.observed.sst) = op.sst
            /\ Parsed(msg.observed.chl) = op.chl

C19_Witness ==
    /\ op.name = "run_check"
    /\ "new_alert" \in DOMAIN op.response
    /\ [i \in DOMAIN LastAlert.message.phrases |-> LastAlert.message.phrases[i].rule]
          = <<"SST z=", "SST too high: ">>
    /\ op.chl_z # None
    /\ ~Over(op.chl, 30)

(* C20: the absolute rule is strict: it does not fire for an sst of       *)
(* exactly 30.0 or a chl of exactly 3.0, and whenever it fires the        *)
(* observed value is strictly greater than the bound.                     *)
C20_AbsoluteRuleStrict ==
    (op.name = "run_check" /\ op.sst # None /\ op.chl # None) =>
        /\ op.sst = FromInt(30) => "SST too high: " \notin Fired(op)
        /\ op.chl = FromInt(3) => "Chl too high: " \notin Fired(op)
        /\ "SST too high: " \in Fired(op) => Over(op.sst, 300)
        /\ "Chl too high: " \in Fired(op) => Over(op.chl, 30)

C20_Witness ==
    /\ op.name = "run_check"
    /\ op.sst = FromInt(30)
    /\ op.chl = FromInt(3)
    /\ "Chl z=" \in Fired(op)
    /\ Fired(op) \cap {"SST too high: ", "Chl too high: "} = {}

(* C21: while the store holds fewer than 5 values of a channel, the      *)
(* measurement of the call included, the statistical rule of that channel *)
(* does not fire, whatever the values are.                                *)
C21_FewValuesNeverFire ==
    op.name = "run_check" =>
        /\ Count(measurements, "sst") < 5 => "SST z=" \notin Fired(op)
        /\ Count(measurements, "chl") < 5 => "Chl z=" \notin Fired(op)

(* C22: a call of run_check never modifies or removes an alert stored    *)
(* before the call: the table only grows and every earlier alert keeps    *)
(* all its fields, the notified flag included.                            *)
C22_EarlierAlertsKept ==
    [][op'.name = "run_check" =>
          /\ Len(alerts') >= Len(alerts)
          /\ \A i \in DOMAIN alerts : alerts'[i] = alerts[i]]_vars

C22_Witness ==
    /\ op.name = "run_check"
    /\ "new_alert" \in DOMAIN op.response
    /\ Len(alerts) = 2
    /\ alerts[1].notified
    /\ ~alerts[2].notified

(* the channels send_notifications knows, and what a call asked for *)
Known == {"sms", "telegram", "email"}

Asked(o) == Range(Get(o.body, "channels", << >>))

Ids(table) == { table[i].id : i \in DOMAIN table }

(* C23: notify_alert called with an id that no stored alert has answers   *)
(* 404 "Alert not found", delivers nothing and leaves the alerts table as *)
(* it was.                                                                *)
C23_UnknownAlertNotFound ==
    [][(op'.name = "notify_alert" /\ op'.alert_id \notin Ids(alerts)) =>
          /\ op'.response = [status_code |-> 404, detail |-> "Alert not found"]
          /\ op'.deliveries = << >>
          /\ alerts' = alerts]_vars

C23_Witness ==
    /\ op.name = "notify_alert"
    /\ "status_code" \in DOMAIN op.response
    /\ op.alert_id = 2
    /\ Len(alerts) = 1
    /\ alerts[1].notified
    /\ Asked(op) = {"sms"}

(* C24: notify_alert on a stored alert sets notified = TRUE whatever the  *)
(* channel list is; with no known channel in the list nothing is          *)
(* delivered and the result is empty.  No operation resets notified.      *)
C24_NotifiedSetAndKept ==
    [][/\ (op'.name = "notify_alert" /\ op'.alert_id \in Ids(alerts)) =>
             /\ \A i \in DOMAIN alerts :
                   alerts[i].id = op'.alert_id => alerts'[i].notified = TRUE
             /\ Asked(op') \cap Known = {} =>
                   /\ DOMAIN op'.response = {"sent"}
                   /\ DOMAIN op'.response.sent = {}
                   /\ op'.deliveries = << >>
       /\ \A i \in DOMAIN alerts :
             alerts[i].notified => (i \in DOMAIN alerts' /\ alerts'[i].notified)]_vars

C24_Witness ==
    /\ op.name = "notify_alert"
    /\ Asked(op) = {"fax"}
    /\ "sent" \in DOMAIN op.response
    /\ DOMAIN op.response.sent = {}
    /\ \E i \in DOMAIN alerts :
          alerts[i].id = op.alert_id /\ alerts[i].notified

(* the address an entry of the result was sent to *)
Address(entry) == IF "chat_id" \in DOMAIN entry THEN entry.chat_id ELSE entry.to

Default(ch) ==
    CASE ch = "sms" -> "+0000000000"
      [] ch = "telegram" -> "demo_chat"
      [] ch = "email" -> "demo@example.com"

(* C25: the result of send_notifications has exactly the requested        *)
(* channels that are among sms, telegram and email as its keys (one entry *)
(* for a channel named several times, none for an unknown channel); every *)
(* entry has status "mock_sent" and the target given for its channel, or  *)
(* the default when none is given; the alert itself is not changed (the   *)
(* caller sets notified).                                                 *)
C25_ResultPerKnownChannel ==
    [][(op'.name = "notify_alert" /\ "sent" \in DOMAIN op'.response) =>
          LET sent    == op'.response.sent
              targets == Get(op'.body, "targets", << >>)
          IN  /\ DOMAIN sent = Asked(op') \cap Known
              /\ \A ch \in DOMAIN sent :
                    /\ sent[ch].status = "mock_sent"
                    /\ sent[ch].channel = ch
                    /\ Address(sent[ch]) =
                          IF ch \in DOMAIN targets THEN targets[ch] ELSE Default(ch)
              /\ \A i \in DOMAIN alerts :
                    \A f \in DOMAIN alerts[i] \ {"notified"} :
                        alerts'[i][f] = alerts[i][f]]_vars

C25_Witness ==
    /\ op.name = "notify_alert"
    /\ Asked(op) = {"sms", "email", "fax"}
    /\ "sent" \in DOMAIN op.response
    /\ DOMAIN op.response.sent = {"sms", "email"}
    /\ Len(op.deliveries) = 3
    /\ op.response.sent["sms"].to = "+911234"

(* the listed rows are the expected ones, each once, newest first *)
Listed(listed, expected) ==
    /\ Range(listed) = expected
    /\ Len(listed) = Cardinality(expected)
    /\ \A i \in DOMAIN listed : \A j \in DOMAIN listed :
          i < j => listed[i].created_at >= listed[j].created_at

(* C26 as stated: get_alerts with a status filter returns exactly the     *)
(* stored alerts whose status equals the filter, and with no filter all   *)
(* stored alerts; newest first by creation time, the store unchanged.     *)
C26_Original ==
    [][op'.name = "get_alerts" =>
          /\ alerts' = alerts
          /\ Listed(op'.response.alerts,
                    IF "status" \in DOMAIN op'.query
                    THEN { a \in Range(alerts) : a.status = op'.query.status }
                    ELSE Range(alerts))]_vars

(* C26: get_alerts with a status filter that is not the empty string      *)
(* returns exactly the stored alerts whose status equals the filter; with *)
(* no status, or with the empty string as status, it returns all stored   *)
(* alerts.  In both cases the alerts are ordered newest first by creation *)
(* time and the store is unchanged.                                       *)
C26_ListedByStatus ==
    [][op'.name = "get_alerts" =>
          /\ alerts' = alerts
          /\ measurements' = measurements
          /\ Listed(op'.response.alerts,
                    IF "status" \in DOMAIN op'.query /\ op'.query.status # ""
                    THEN { a \in Range(alerts) : a.status = op'.query.status }
                    ELSE Range(alerts))]_vars

C26_Witness ==
    /\ op.name = "get_alerts"
    /\ op.query = [status |-> "Active"]
    /\ Len(alerts) = 2
    /\ alerts[1].created_at < alerts[2].created_at
    /\ Len(op.response.alerts) = 2
    /\ op.response.alerts[1].id = 2

(* C27: fetch_obis always terminates: whatever the server answers (full  *)
(* pages, short pages, empty pages, errors) it issues at most max_pages   *)
(* requests, and it issues no further request once a page was empty, a    *)
(* request failed or the number of collected records reached size.        *)
C27_FetchTerminates ==
    /\ <>(op.pc = "done")
    /\ [](op.requests <= op.max_pages)
    /\ [][(op.last \in {"empty", "error"} \/ Len(op.results) >= op.size) =>
             (op'.requests = op.requests /\ op'.results = op.results)]_vars

C27_Witness ==
    /\ op.name = "fetch_obis"
    /\ op.pc = "done"
    /\ op.size = 3
    /\ op.requests = 2
    /\ op.max_pages = 2
    /\ op.last = "short"
    /\ Len(op.results) = 2

(* C28: fetch_obis returns an empty list on failure: when a page request  *)
(* fails, the returned list is empty, also when earlier pages had been    *)
(* fetched successfully.                                                  *)
C28_FailureReturnsEmpty ==
    (op.name = "fetch_obis" /\ op.pc = "done" /\ op.last = "error") =>
        op.results = << >>

(* C29: load_csv inserts one measurement for every row of the file whose *)
(* sst holds a number (0 included) and skips every row whose sst cannot   *)
(* be read as a number, without aborting the load; the inserted count it  *)
(* returns is the number of measurements added to the store.              *)
C29_NumericSstRowsInserted ==
    [][(op'.name = "load_csv" /\ op'.calls = op.calls + 1
          /\ op'.file.columns # {}) =>
          /\ "inserted" \in DOMAIN op'.response
          /\ Len(measurements') - Len(measurements) =
                Cardinality({ i \in DOMAIN op'.file.rows :
                                op'.file.rows[i].sst \in NumericTexts })
          /\ op'.response.inserted = Len(measurements') - Len(measurements)]_vars

====
